---- MODULE Spec2Model ----
(***************************************************************************)
(* Model of replication-service/app.py: a relay that consumes a PostgreSQL *)
(* logical replication stream (wal2json) and republishes every change of   *)
(* every batch as one Kinesis record, then sends feedback for the batch.   *)
(*                                                                         *)
(* The module-level script and ReplicationConsumer.__call__ are modelled   *)
(* as one sequential process whose position is pc.  The database server    *)
(* (which slots exist, what it streams) and the Kinesis client (what a     *)
(* put_record call returns or raises) are the environment: their outcomes  *)
(* are drawn nondeterministically.                                         *)
(***************************************************************************)
EXTENDS Integers, Sequences, FiniteSets, TLC

\* ------------------------------------------------------------ bounds
\* Number of batches the server delivers in one run.
MaxBatches == 2
\* Largest number of change entries in one batch.
MaxLen == 2

\* ------------------------------------------------------------ configuration
\* The deployments considered: the values the environment gives
\* REPLICATION_SLOT_NAME and REPLICATION_KINESIS_STREAM_NAME (app.py:25-26).
Deployments ==
    {[slot |-> "wal2json", stream |-> "stream_a"],
     [slot |-> "cdc_slot", stream |-> "stream_b"]}
\* The slot name the first start_replication call is given (app.py:69).
FirstStartSlot == "wal2json"
\* The PartitionKey literal of put_record (app.py:42).
PartitionKeyLiteral == "default"

\* ------------------------------------------------------------ payloads
\* The i-th change entry of a batch, as wal2json writes it (pretty-printed text
\* of one row mutation).
Kinds == <<"insert", "update", "delete">>
EntryValue(i) == [kind |-> Kinds[((i - 1) % 3) + 1], id |-> i]
PrettyEntry(v) == [fmt |-> "pretty", value |-> v]
ChangeList(n) == [i \in 1..n |-> PrettyEntry(EntryValue(i))]

\* The payload texts the server may deliver: text that is no JSON, a JSON
\* object without a "change" member, and a JSON object whose "change" member
\* is a list of 0..MaxLen entries.
Payloads ==
    {[form |-> "invalid", hasChange |-> FALSE, change |-> <<>>],
     [form |-> "object",  hasChange |-> FALSE, change |-> <<>>]}
    \cup {[form |-> "object", hasChange |-> TRUE, change |-> ChangeList(n)] : n \in 0..MaxLen}

\* Faulty variant of json_loads_change: an empty change list is taken for a
\* missing one.
json_loads_change_EmptyIsMissing(payload) ==
    IF payload.form = "invalid" THEN [ok |-> FALSE, exc |-> "JSONDecodeError", value |-> <<>>]
    ELSE IF ~payload.hasChange \/ Len(payload.change) = 0
         THEN [ok |-> FALSE, exc |-> "KeyError", value |-> <<>>]
    ELSE [ok |-> TRUE, exc |-> "none",
          value |-> [i \in 1..Len(payload.change) |-> payload.change[i].value]]

\* json.loads(msg.payload)["change"] (app.py:37): the exception it raises, or
\* the parsed list of change values.
json_loads_change(payload) ==
    IF payload.form = "invalid" THEN [ok |-> FALSE, exc |-> "JSONDecodeError", value |-> <<>>]
    ELSE IF ~payload.hasChange THEN [ok |-> FALSE, exc |-> "KeyError", value |-> <<>>]
    ELSE [ok |-> TRUE, exc |-> "none",
          value |-> [i \in 1..Len(payload.change) |-> payload.change[i].value]]

\* json.dumps(change) (app.py:41): the compact text of one parsed value.
json_dumps(v) == [fmt |-> "compact", value |-> v]

\* ------------------------------------------------------------ state
VARIABLES
    replication_slot_name,  \* app.py:25
    kinesis_stream_name,    \* app.py:26
    slots,                  \* replication slots that exist at the server
    streaming_slot,         \* slot this session streams from, "" when none
    cur_open,               \* cur (app.py:31) not yet closed
    conn_open,              \* conn (app.py:28) not yet closed
    pc,                     \* position of the script / the consumer
    error,                  \* exception that is propagating, "none" when none
    error_origin,           \* call that raised it
    msg,                    \* message consume_stream handed to the consumer
    delivered,              \* every message delivered so far, in order
    changes,                \* the list the for loop iterates
    idx,                    \* enumerate index of the for loop
    attempts,               \* every put_record call made, in order
    log,                    \* every logger call made, in order
    flush_lsn,              \* position last given to send_feedback
    acks,                   \* every send_feedback call made, in order
    handler_calls,          \* calls the module-level except clause has made
    exit_code               \* process exit status, -1 while running

vars == <<replication_slot_name, kinesis_stream_name, slots, streaming_slot,
          cur_open, conn_open, pc, error, error_origin, msg, delivered, changes,
          idx, attempts, log, flush_lsn, acks, handler_calls, exit_code>>

config == <<replication_slot_name, kinesis_stream_name>>
session == <<streaming_slot, cur_open, conn_open>>
consumer == <<msg, delivered, changes, idx, attempts, flush_lsn, acks>>

NoMsg == [payload |-> [form |-> "invalid", hasChange |-> FALSE, change |-> <<>>],
          data_start |-> 0]

Teardown == {"except", "exit"}

LogEntry(level, text, b, i, detail) ==
    [level |-> level, msg |-> text, batch |-> b, idx |-> i, detail |-> detail]
\* (batch and idx say during which call the entry was logged; the logger calls
\* of app.py do not carry them.)

\* State after the module-level statements before the try (app.py:18-66).
Init ==
    /\ \E d \in Deployments :
          /\ replication_slot_name = d.slot
          /\ kinesis_stream_name = d.stream
    /\ slots \in SUBSET {FirstStartSlot, replication_slot_name}
    /\ streaming_slot = ""
    /\ cur_open = TRUE
    /\ conn_open = TRUE
    /\ pc = "start"
    /\ error = "none"
    /\ error_origin = "none"
    /\ msg = NoMsg
    /\ delivered = <<>>
    /\ changes = <<>>
    /\ idx = 0
    /\ attempts = <<>>
    /\ log = <<LogEntry("info", "Starting streaming", 0, 0, "")>>
    /\ flush_lsn = 0
    /\ acks = <<>>
    /\ handler_calls = <<>>
    /\ exit_code = -1

\* An exception leaves the inner statements and reaches the module-level
\* except clause (app.py:80).
Raise(exc, origin) ==
    /\ error' = exc
    /\ error_origin' = origin
    /\ pc' = "except"

\* ------------------------------------------------------------ session
\* Errors of the session itself that any call on the cursor may raise
\* (connection lost, slot in use by another session): psycopg2.OperationalError.
SessionErrors == {"OperationalError"}

\* cur.start_replication(slot_name='wal2json', ...) and its except clause
\* (app.py:68-72).  A missing slot raises psycopg2.ProgrammingError, the one
\* class the inner except catches.
StartReplication ==
    /\ pc = "start"
    /\ \/ /\ FirstStartSlot \in slots
          /\ streaming_slot' = FirstStartSlot
          /\ pc' = "consume"
          /\ UNCHANGED <<error, error_origin>>
       \/ /\ FirstStartSlot \notin slots
          /\ pc' = "create"
          /\ UNCHANGED <<streaming_slot, error, error_origin>>
       \/ /\ \E e \in SessionErrors : Raise(e, "start_replication")
          /\ UNCHANGED streaming_slot
    /\ UNCHANGED <<config, slots, cur_open, conn_open, consumer, log, handler_calls, exit_code>>

\* Another instance of the service, started with the same configuration,
\* creates the slot between this instance's failed start and its create.
RacingInstanceCreatesSlot ==
    /\ pc = "create"
    /\ replication_slot_name \notin slots
    /\ slots' = slots \cup {replication_slot_name}
    /\ UNCHANGED <<config, session, pc, error, error_origin, consumer, log, handler_calls, exit_code>>

\* What follows a create_replication_slot call that the server rejects because
\* the slot exists (psycopg2.errors.DuplicateObject, a ProgrammingError raised
\* inside the except clause of app.py:72, so nothing but app.py:80 catches it).
OnSlotExists ==
    Raise("DuplicateObject", "create_replication_slot")

\* cur.create_replication_slot(replication_slot_name, ...) (app.py:73-74).
CreateReplicationSlot ==
    /\ pc = "create"
    /\ \/ /\ replication_slot_name \notin slots
          /\ slots' = slots \cup {replication_slot_name}
          /\ pc' = "restart"
          /\ UNCHANGED <<error, error_origin>>
       \/ /\ replication_slot_name \in slots
          /\ OnSlotExists
          /\ UNCHANGED slots
       \/ /\ \E e \in SessionErrors : Raise(e, "create_replication_slot")
          /\ UNCHANGED slots
    /\ UNCHANGED <<config, session, consumer, log, handler_calls, exit_code>>

\* cur.start_replication(slot_name=replication_slot_name, ...) (app.py:76-78),
\* reached only after the create returned, so the slot exists.
RetryStartReplication ==
    /\ pc = "restart"
    /\ \/ /\ replication_slot_name \in slots
          /\ streaming_slot' = replication_slot_name
          /\ pc' = "consume"
          /\ UNCHANGED <<error, error_origin>>
       \/ /\ \E e \in SessionErrors : Raise(e, "start_replication")
          /\ UNCHANGED streaming_slot
    /\ UNCHANGED <<config, slots, cur_open, conn_open, consumer, log, handler_calls, exit_code>>

\* Log position at which the next batch starts: the server numbers the log
\* from 1, and a batch of n change entries takes n + 1 positions of it (its
\* entries and its commit).  msg.data_start of the message consume_stream
\* hands over (app.py:61, 79).
NextStart ==
    IF delivered = <<>> THEN 1
    ELSE LET last == delivered[Len(delivered)]
         IN  last.data_start + Len(last.payload.change) + 1

\* cur.consume_stream(replication_consumer) (app.py:79) reads the next message
\* and calls the consumer with it.  The server delivers batches in log order.
ConsumeStreamDeliver ==
    /\ pc = "consume"
    /\ Len(delivered) < MaxBatches
    /\ \E p \in Payloads :
          /\ msg' = [payload |-> p, data_start |-> NextStart]
          /\ delivered' = Append(delivered, msg')
    /\ pc' = "call"
    /\ UNCHANGED <<config, slots, session, error, error_origin, changes, idx,
                   attempts, log, flush_lsn, acks, handler_calls, exit_code>>

\* consume_stream raises while it waits for the next message: the session is
\* lost, or the process receives SIGINT (KeyboardInterrupt).
ConsumeStreamRaises ==
    /\ pc = "consume"
    /\ \E e \in SessionErrors \cup {"KeyboardInterrupt"} : Raise(e, "consume_stream")
    /\ UNCHANGED <<config, slots, session, consumer, log, handler_calls, exit_code>>

\* ------------------------------------------------------------ consumer
\* What one kinesis_client.put_record call may do: return, raise
\* botocore.exceptions.ClientError (the service rejected the call), raise an
\* exception of another class (botocore's EndpointConnectionError is a
\* BotoCoreError, not a ClientError), or be interrupted by SIGINT.
PutResults == {"ok", "ClientError", "EndpointConnectionError", "KeyboardInterrupt"}

\* Faulty variant of IsClientError: the inner handler is a bare except, so it
\* swallows every exception of put_record.
IsClientError_Any(r) == TRUE

\* The class test of `except botocore.exceptions.ClientError` (app.py:45).
IsClientError(r) == r = "ClientError"

\* Faulty variant of PutData: the loop variable is not used, every call
\* carries the first entry.
PutData_First(i) == json_dumps(changes[1])

\* The Data argument of the put_record call for enumerate index i (app.py:41).
PutData(i) == json_dumps(changes[i + 1])

\* Faulty variant of PutCall: the partition key is taken from the record.
PutCall_KeyFromRecord(i, r) ==
    [batch |-> Len(delivered), idx |-> i, StreamName |-> kinesis_stream_name,
     Data |-> PutData(i), PartitionKey |-> changes[i + 1].kind, result |-> r]

\* The put_record call for enumerate index i with result r (app.py:39-42).
PutCall(i, r) ==
    [batch |-> Len(delivered), idx |-> i, StreamName |-> kinesis_stream_name,
     Data |-> PutData(i), PartitionKey |-> PartitionKeyLiteral, result |-> r]

\* Faulty variant of FeedbackPosition: send_feedback is called without the
\* message's position, so the flushed position stays where it was.
FeedbackPosition_Stale(m) == flush_lsn

\* The flush_lsn argument of send_feedback (app.py:61).
FeedbackPosition(m) == m.data_start

\* ReplicationConsumer.__call__, the for statement's iterable (app.py:37).  An
\* exception of json.loads or of the subscript is caught by `except
\* BaseException` (app.py:49-54), logged and raised again.
Decode ==
    /\ pc = "call"
    /\ LET r == json_loads_change(msg.payload) IN
         \/ /\ r.ok
            /\ changes' = r.value
            /\ idx' = 0
            /\ pc' = "loop"
            /\ UNCHANGED <<log, error, error_origin>>
         \/ /\ ~r.ok
            /\ log' = Append(log, LogEntry("warning", "Failed to write to kinesis",
                                           Len(delivered), -1, r.exc))
            /\ Raise(r.exc, "json.loads")
            /\ UNCHANGED <<changes, idx>>
    /\ UNCHANGED <<config, slots, session, msg, delivered, attempts, flush_lsn,
                   acks, handler_calls, exit_code>>

\* One iteration of the for loop (app.py:37-48), and the handler of app.py:49-54
\* when the exception is not a ClientError.
PutRecord ==
    /\ pc = "loop"
    /\ idx < Len(changes)
    /\ \E r \in PutResults :
         /\ attempts' = Append(attempts, PutCall(idx, r))
         /\ \/ /\ r = "ok"
               /\ log' = Append(log, LogEntry("info",
                            "sent individual change message successfully to kinesis",
                            Len(delivered), idx, ""))
               /\ idx' = idx + 1
               /\ UNCHANGED <<pc, error, error_origin>>
            \/ /\ r # "ok"
               /\ IsClientError(r)
               /\ log' = Append(log, LogEntry("warning",
                            "Error transmitting record to kinesis",
                            Len(delivered), idx, r))
               /\ idx' = idx + 1
               /\ UNCHANGED <<pc, error, error_origin>>
            \/ /\ r # "ok"
               /\ ~IsClientError(r)
               /\ log' = Append(log, LogEntry("warning", "Failed to write to kinesis",
                                              Len(delivered), idx, r))
               /\ Raise(r, "put_record")
               /\ UNCHANGED idx
    /\ UNCHANGED <<config, slots, session, msg, delivered, changes, flush_lsn,
                   acks, handler_calls, exit_code>>

\* Faulty variant of LoopEnded: the loop is left after its first iteration
\* (a break, or send_feedback indented into the loop body).
LoopEnded_AfterFirst == idx >= 1 \/ idx = Len(changes)

\* Faulty variant of LoopEnded: feedback may be sent before any iteration.
LoopEnded_Always == TRUE

\* The for statement has exhausted its iterable (app.py:37), so control
\* leaves the try statement and reaches app.py:61.
LoopEnded == idx = Len(changes)

\* Faulty variant of SendFeedback: feedback is sent only when no put_record
\* call of the batch raised; otherwise __call__ returns without it.
SendFeedback_OnlyOnSuccess ==
    /\ pc = "loop"
    /\ idx = Len(changes)
    /\ IF \A k \in 1..Len(attempts) :
             attempts[k].batch = Len(delivered) => attempts[k].result = "ok"
       THEN /\ flush_lsn' = msg.data_start
            /\ acks' = Append(acks, [batch |-> Len(delivered), lsn |-> flush_lsn'])
       ELSE UNCHANGED <<flush_lsn, acks>>
    /\ pc' = "consume"
    /\ UNCHANGED <<config, slots, session, error, error_origin, msg, delivered,
                   changes, idx, attempts, log, handler_calls, exit_code>>

\* msg.cursor.send_feedback(flush_lsn=msg.data_start) (app.py:61), the
\* statement after the try statement; then __call__ returns to consume_stream.
SendFeedback ==
    /\ pc = "loop"
    /\ LoopEnded
    /\ flush_lsn' = FeedbackPosition(msg)
    /\ acks' = Append(acks, [batch |-> Len(delivered), lsn |-> flush_lsn'])
    /\ pc' = "consume"
    /\ UNCHANGED <<config, slots, session, error, error_origin, msg, delivered,
                   changes, idx, attempts, log, handler_calls, exit_code>>

\* ------------------------------------------------------------ teardown
\* Faulty variant of ExceptClauseCalls: cur.close() is missing.
ExceptClauseCalls_NoCurClose == <<"conn.close", "logger.warning">>

\* Faulty variant of ExceptClauseCalls: conn.close() is missing.
ExceptClauseCalls_NoConnClose == <<"cur.close", "logger.warning">>

\* The calls of the module-level except clause, in statement order
\* (app.py:81-87).
ExceptClauseCalls == <<"cur.close", "conn.close", "logger.warning">>

\* The slot the warning of app.py:86-87 names.
RemediationSlot == replication_slot_name

\* The logger.warning call of app.py:83-87: its first argument and the text
\* of its second, which names the slot twice.
RemediationMessage(slot) ==
    [level |-> "warning",
     msg |-> "Transaction logs will accumulate in pg_xlog until the slot is dropped.",
     batch |-> 0, idx |-> 0,
     detail |-> <<"The slot still exists. Drop it with SELECT pg_drop_replication_slot",
                  slot>>]

\* The module-level except clause (app.py:80-87): it catches every exception,
\* runs its calls in order and swallows the exception; it is the last statement
\* of the script, so the interpreter then exits with status 0.
ExceptClause ==
    /\ pc = "except"
    /\ LET Calls(c) == \E k \in 1..Len(ExceptClauseCalls) : ExceptClauseCalls[k] = c IN
         /\ cur_open' = (cur_open /\ ~Calls("cur.close"))
         /\ conn_open' = (conn_open /\ ~Calls("conn.close"))
         /\ log' = IF Calls("logger.warning")
                   THEN Append(log, RemediationMessage(RemediationSlot))
                   ELSE log
    /\ handler_calls' = ExceptClauseCalls
    /\ pc' = "exit"
    /\ exit_code' = 0
    /\ UNCHANGED <<config, slots, streaming_slot, error, error_origin, consumer>>

\* ------------------------------------------------------------ specification
Next ==
    \/ StartReplication
    \/ RacingInstanceCreatesSlot
    \/ CreateReplicationSlot
    \/ RetryStartReplication
    \/ ConsumeStreamDeliver
    \/ ConsumeStreamRaises
    \/ Decode
    \/ PutRecord
    \/ SendFeedback
    \/ ExceptClause

Spec == Init /\ [][Next]_vars

\* The interpreter does not stop inside __call__: the iterable is evaluated,
\* and the statement after the try statement runs once the loop has ended.
FairSpec == Spec /\ WF_vars(Decode) /\ WF_vars(SendFeedback)

\* ------------------------------------------------------------ properties
\* Helpers over the recorded history.
Batches == 1..Len(delivered)
AttemptsOf(b) == SelectSeq(attempts, LAMBDA a : a.batch = b)
Decoded(b) == json_loads_change(delivered[b].payload)
WellFormed(b) == Decoded(b).ok
NumChanges(b) == Len(Decoded(b).value)
Acked(b) == \E i \in 1..Len(acks) : acks[i].batch = b
AckedAtStart(b) ==
    /\ b \in Batches
    /\ \E i \in 1..Len(acks) : acks[i] = [batch |-> b, lsn |-> delivered[b].data_start]
LoggedFailure(b, i) ==
    \E j \in 1..Len(log) :
        /\ log[j].level = "warning"
        /\ log[j].batch = b
        /\ log[j].idx = i
\* The k-th put_record call of batch b is the one for enumerate index k - 1.
InIndexOrder(b) == \A k \in 1..Len(AttemptsOf(b)) : AttemptsOf(b)[k].idx = k - 1
\* Every record of batch b has had its put_record call return or raise
\* ClientError.
Resolved(b) ==
    /\ b \in Batches
    /\ WellFormed(b)
    /\ Len(AttemptsOf(b)) = NumChanges(b)
    /\ \A k \in 1..Len(AttemptsOf(b)) : AttemptsOf(b)[k].result \in {"ok", "ClientError"}

\* C1: every batch whose payload decodes and whose records have all had their
\* publish attempt resolved (returned, or raised ClientError) is eventually
\* acknowledged by a send_feedback call with the batch's start position,
\* however many of its records failed.
C1_ResolvedBatchIsAcked ==
    \A b \in 1..MaxBatches : Resolved(b) ~> AckedAtStart(b)

\* Reached: a batch of two records, both rejected with ClientError, acknowledged.
C1_Witness ==
    \E b \in Batches :
        /\ AckedAtStart(b)
        /\ NumChanges(b) = 2
        /\ \A k \in 1..Len(AttemptsOf(b)) : AttemptsOf(b)[k].result = "ClientError"

\* C2 (as claimed): a batch whose payload does not decode is still
\* acknowledged at its start position once decoding has been tried, and the
\* decode failure does not terminate the relay.
C2_MalformedBatchIsAcked ==
    \A b \in Batches :
        (~WellFormed(b) /\ ~(b = Len(delivered) /\ pc = "call"))
            => (AckedAtStart(b) /\ error_origin # "json.loads")

\* Publish failures of a single record: the service rejects the call
\* (ClientError) or the call fails below the service (EndpointConnectionError).
PublishFailures == {"ClientError", "EndpointConnectionError"}

\* For every put_record call that failed with a class in F: the failure is
\* logged, the calls of its batch are made in index order, and the loop goes
\* on: the batch ends acknowledged with all its records attempted, or the loop
\* is past that record, or a later record of the batch ended the relay.
ContinuesAfter(F) ==
    /\ \A b \in Batches : InIndexOrder(b)
    /\ \A k \in 1..Len(attempts) :
         LET a == attempts[k] IN
         a.result \in F =>
            /\ LoggedFailure(a.batch, a.idx)
            /\ \/ AckedAtStart(a.batch) /\ Len(AttemptsOf(a.batch)) = NumChanges(a.batch)
               \/ a.batch = Len(delivered) /\ pc = "loop" /\ idx > a.idx
               \/ /\ a.batch = Len(delivered)
                  /\ pc \in Teardown
                  /\ error_origin = "put_record"
                  /\ attempts[Len(attempts)].idx > a.idx

\* C3 (as claimed): no publish failure of a single record aborts the relay:
\* the failure is logged, the remaining records of the batch are attempted in
\* index order and the relay goes on to the next batch.
C3_AnyPublishFailureContinues == ContinuesAfter(PublishFailures)

\* C3, the part the code keeps: a publish failure that is a botocore
\* ClientError never aborts the relay.
C3_ClientErrorContinues == ContinuesAfter({"ClientError"})

\* Reached: record 0 of a two-record batch failed with ClientError, record 1
\* was attempted, the batch was acknowledged and the next batch delivered.
C3_Witness ==
    /\ Len(delivered) = 2
    /\ AckedAtStart(1)
    /\ Len(AttemptsOf(1)) = 2
    /\ AttemptsOf(1)[1].result = "ClientError"
    /\ AttemptsOf(1)[2].result = "ok"

\* C4 (as claimed): whenever feedback has been sent for a batch, every change
\* record of that batch was published successfully.
C4_AckedOnlyAfterSuccess ==
    \A i \in 1..Len(acks) :
        LET A == AttemptsOf(acks[i].batch) IN
        /\ Len(A) = NumChanges(acks[i].batch)
        /\ \A k \in 1..Len(A) : A[k].result = "ok"

\* C4 (amended): feedback is sent for a batch only after a publish attempt
\* has been made for every change record of the batch and has returned or
\* raised ClientError; the attempts need not have succeeded.
C4_AckedOnlyAfterAllAttempted ==
    [][Len(acks') > Len(acks) =>
          /\ acks' = Append(acks, [batch |-> Len(delivered), lsn |-> msg.data_start])
          /\ pc = "loop"
          /\ Len(AttemptsOf(Len(delivered))) = Len(changes)
          /\ Len(changes) = NumChanges(Len(delivered))
          /\ \A k \in 1..Len(attempts) :
                attempts[k].batch = Len(delivered)
                    => attempts[k].result \in {"ok", "ClientError"}]_vars

\* Reached: a batch acknowledged although one of its records was rejected and
\* the other published.
C4_Witness ==
    \E i \in 1..Len(acks) :
        LET A == AttemptsOf(acks[i].batch) IN
        /\ Len(A) = 2
        /\ A[1].result = "ok"
        /\ A[2].result = "ClientError"

\* C5: in every state in which feedback for a batch has been sent, each record
\* of that batch has been published or had its failure logged, and none is
\* still to be attempted.
C5_AckedBatchIsResolved ==
    \A i \in 1..Len(acks) :
        LET b == acks[i].batch
            A == AttemptsOf(b)
        IN  /\ WellFormed(b)
            /\ Len(A) = NumChanges(b)
            /\ \A k \in 1..Len(A) :
                  /\ A[k].idx = k - 1
                  /\ \/ A[k].result = "ok"
                     \/ A[k].result = "ClientError" /\ LoggedFailure(b, k - 1)

\* Reached: two batches acknowledged, the second with a logged failure.
C5_Witness ==
    /\ Len(acks) = 2
    /\ NumChanges(acks[2].batch) = 2
    /\ \E k \in 1..2 : AttemptsOf(acks[2].batch)[k].result = "ClientError"

\* C6 (as claimed): a record whose publish attempt fails with a retryable
\* transport error is attempted again; it is not dropped after one attempt.
\* Stated for the batches already acknowledged: every record of such a batch
\* whose put_record call raised ClientError has had more than one call.
C6_FailedPublishIsRetried ==
    \A k \in 1..Len(attempts) :
        LET a == attempts[k] IN
        (a.result = "ClientError" /\ Acked(a.batch))
            => \E j \in 1..Len(attempts) :
                  /\ j # k
                  /\ attempts[j].batch = a.batch
                  /\ attempts[j].idx = a.idx

\* The callback returned for batch b: consume_stream is waiting again, has
\* delivered a later batch, or raised while waiting.
FullyProcessed(b) ==
    \/ b < Len(delivered)
    \/ /\ b = Len(delivered)
       /\ \/ pc = "consume"
          \/ pc \in Teardown /\ error_origin = "consume_stream"

\* C7: the acknowledged position never decreases, and whenever some batch has
\* been fully processed it equals the start position of the most recent one
\* (before that it is the initial position).
C7_CheckpointMonotonic ==
    /\ [][flush_lsn' >= flush_lsn]_vars
    /\ [](LET S == {b \in Batches : FullyProcessed(b)} IN
          IF S = {} THEN flush_lsn = 0
          ELSE \E b \in S : /\ \A c \in S : c <= b
                            /\ flush_lsn = delivered[b].data_start)

\* Reached: two batches fully processed, the second at a later position.
C7_Witness ==
    /\ Len(acks) = 2
    /\ acks[1].lsn < acks[2].lsn
    /\ flush_lsn = acks[2].lsn

\* C8: for every acknowledged batch of N change entries all of whose publish
\* calls succeeded, exactly N put_record calls were made, the k-th for index
\* k - 1 and carrying the k-th entry of the payload alone, none repeated.
C8_OnePublishPerEntryInOrder ==
    \A b \in Batches :
        LET A == AttemptsOf(b) IN
        (Acked(b) /\ \A k \in 1..Len(A) : A[k].result = "ok")
            => /\ WellFormed(b)
               /\ Len(A) = Len(delivered[b].payload.change)
               /\ \A k \in 1..Len(A) :
                     /\ A[k].idx = k - 1
                     /\ A[k].Data =
                          [fmt |-> "compact", value |-> delivered[b].payload.change[k].value]

\* Reached: a batch of two entries, both published, acknowledged.
C8_Witness ==
    \E b \in Batches :
        /\ Acked(b)
        /\ Len(delivered[b].payload.change) = 2
        /\ Len(AttemptsOf(b)) = 2
        /\ \A k \in 1..2 : AttemptsOf(b)[k].result = "ok"

\* C9 (as claimed): a create_replication_slot call that reports that the slot
\* already exists is treated as success, so it never takes the relay to its
\* failed state.
C9_SlotExistsIsSuccess ==
    ~(pc \in Teardown /\ error = "DuplicateObject")

\* Position of call c among the calls the except clause made, 0 when absent.
CalledAt(c) ==
    IF \E k \in 1..Len(handler_calls) : handler_calls[k] = c
    THEN CHOOSE k \in 1..Len(handler_calls) : handler_calls[k] = c
    ELSE 0

\* C10: every exception of the session calls or of the consumer takes the
\* script to the except clause; the process ends only through that clause, and
\* then the cursor and the connection are closed, both before the warning, and
\* the warning names the configured slot and the drop-slot statement.
C10_TeardownClosesThenWarns ==
    /\ (error # "none") <=> (pc \in Teardown)
    /\ (pc = "exit") <=> (exit_code # -1)
    /\ \A j \in 1..Len(log) : log[j].msg = RemediationMessage("").msg => pc = "exit"
    /\ pc = "exit"
          => /\ ~cur_open
             /\ ~conn_open
             /\ CalledAt("cur.close") > 0
             /\ CalledAt("conn.close") > 0
             /\ CalledAt("logger.warning") > CalledAt("cur.close")
             /\ CalledAt("logger.warning") > CalledAt("conn.close")
             /\ log[Len(log)] = RemediationMessage(replication_slot_name)

\* Reached: the session was lost while streaming, after a batch had been
\* acknowledged, and the script has ended.
C10_Witness ==
    /\ pc = "exit"
    /\ error = "OperationalError"
    /\ error_origin = "consume_stream"
    /\ Len(acks) >= 1
    /\ replication_slot_name = "cdc_slot"

\* C11 (as claimed): the process exit status is 0 only when the process stops
\* because of a shutdown signal; after a fatal session error it is non-zero.
C11_ZeroExitOnlyOnShutdown ==
    exit_code = 0 => error = "KeyboardInterrupt"

\* C12: a SIGINT that arrives while consume_stream waits or while put_record
\* runs ends publishing: the interrupted call is the last put_record call, its
\* batch is not acknowledged, nothing is published or acknowledged afterwards,
\* and cursor and connection are closed when the process ends.
C12_InterruptStopsAndCloses ==
    /\ \A k \in 1..Len(attempts) :
          attempts[k].result = "KeyboardInterrupt"
             => /\ k = Len(attempts)
                /\ error = "KeyboardInterrupt"
                /\ error_origin = "put_record"
                /\ pc \in Teardown
                /\ attempts[k].batch = Len(delivered)
                /\ ~Acked(attempts[k].batch)
    /\ (error = "KeyboardInterrupt" /\ error_origin = "consume_stream")
          => /\ pc \in Teardown
             /\ \A b \in Batches : Acked(b)
    /\ (error = "KeyboardInterrupt" /\ pc = "exit")
          => /\ ~cur_open
             /\ ~conn_open
             /\ CalledAt("cur.close") > 0
             /\ CalledAt("conn.close") > 0

\* Reached: the process was interrupted while publishing record 1 of a batch,
\* after record 0 had been published, and has ended.
C12_Witness ==
    /\ pc = "exit"
    /\ error = "KeyboardInterrupt"
    /\ error_origin = "put_record"
    /\ Len(attempts) = 2
    /\ attempts[1].result = "ok"
    /\ attempts[2].result = "KeyboardInterrupt"
    /\ acks = <<>>

\* C13: at most one batch is in flight.  The put_record calls are grouped by
\* batch in delivery order, feedback is sent in delivery order, and whenever a
\* later batch has been delivered every record of each earlier batch has been
\* attempted and the earlier batch acknowledged; so all calls and the
\* acknowledgement of batch k precede the first call of batch k + 1.
C13_OneBatchInFlight ==
    /\ \A b \in Batches :
          b < Len(delivered)
             => /\ Acked(b)
                /\ WellFormed(b)
                /\ Len(AttemptsOf(b)) = NumChanges(b)
    /\ \A k \in 1..Len(attempts) :
          /\ attempts[k].batch \in Batches
          /\ \A j \in 1..(k - 1) : attempts[j].batch <= attempts[k].batch
          /\ \A b \in 1..(attempts[k].batch - 1) : Acked(b)
    /\ \A i \in 1..Len(acks) : \A j \in 1..(i - 1) : acks[j].batch < acks[i].batch

\* Reached: two batches, each with put_record calls, the first one including a
\* rejected record, both acknowledged.
C13_Witness ==
    /\ Len(acks) = 2
    /\ Len(AttemptsOf(1)) = 2
    /\ Len(AttemptsOf(2)) >= 1
    /\ AttemptsOf(1)[2].result = "ClientError"

\* C14: every put_record call carries the partition key "default" and the
\* configured stream name, whatever the record and the batch.
C14_FixedKeyAndStream ==
    \A k \in 1..Len(attempts) :
        /\ attempts[k].PartitionKey = "default"
        /\ attempts[k].StreamName = kinesis_stream_name

\* Reached: calls for different records of two batches have been made.
C14_Witness ==
    /\ Len(AttemptsOf(1)) = 2
    /\ Len(AttemptsOf(2)) = 1
    /\ AttemptsOf(1)[1].Data # AttemptsOf(1)[2].Data
    /\ kinesis_stream_name = "stream_b"

\* Position acknowledged before batch b: that of the last feedback sent for an
\* earlier batch, the initial position when there is none.
PositionBefore(b) ==
    LET earlier == {i \in 1..Len(acks) : acks[i].batch < b} IN
    IF earlier = {} THEN 0
    ELSE acks[CHOOSE i \in earlier : \A j \in earlier : j <= i].lsn

\* C15: a put_record call that raises an exception that is no ClientError
\* fails the relay: it is the last call made (the later records of the batch
\* are never published), no feedback is sent for its batch, the acknowledged
\* position keeps its previous value, the failure is logged and the exception
\* propagates to the module-level except clause.
C15_UnclassifiedExceptionFails ==
    \A k \in 1..Len(attempts) :
        attempts[k].result \notin {"ok", "ClientError"}
           => /\ k = Len(attempts)
              /\ pc \in Teardown
              /\ error = attempts[k].result
              /\ error_origin = "put_record"
              /\ ~Acked(attempts[k].batch)
              /\ flush_lsn = PositionBefore(attempts[k].batch)
              /\ LoggedFailure(attempts[k].batch, attempts[k].idx)

\* Reached: after one acknowledged batch, record 0 of a two-record batch raised
\* EndpointConnectionError and the script has ended.
C15_Witness ==
    /\ pc = "exit"
    /\ Len(delivered) = 2
    /\ NumChanges(2) = 2
    /\ Len(acks) = 1
    /\ Len(AttemptsOf(2)) = 1
    /\ AttemptsOf(2)[1].result = "EndpointConnectionError"
    /\ flush_lsn = delivered[1].data_start

\* C16 (as claimed): whenever the relay streams, it streams from the
\* configured replication slot.
C16_StreamsFromConfiguredSlot ==
    streaming_slot # "" => streaming_slot = replication_slot_name

\* C17: a well-formed batch with an empty change list causes no put_record
\* call and, once the consumer has run, is acknowledged at its start position;
\* the relay then waits for the next batch.
C17_EmptyBatchIsAcked ==
    \A b \in Batches :
        (delivered[b].payload.hasChange /\ Len(delivered[b].payload.change) = 0)
           => /\ AttemptsOf(b) = <<>>
              /\ \/ b = Len(delivered) /\ pc \in {"call", "loop"}
                 \/ AckedAtStart(b) /\ FullyProcessed(b)

\* Reached: an empty batch was acknowledged and a second batch delivered.
C17_Witness ==
    /\ Len(delivered) = 2
    /\ delivered[1].payload.hasChange
    /\ Len(delivered[1].payload.change) = 0
    /\ AckedAtStart(1)
    /\ attempts = <<>>
    /\ pc = "call"
====
